---------------------------- MODULE Spec2Model ----------------------------
(***************************************************************************)
(* A model of datetime.js (src/src/datetime.ts, src/src/interval.ts): the  *)
(* calendar math, the field normalizer, the DateTime value type and the    *)
(* Interval between two DateTimes.                                         *)
(*                                                                         *)
(* JavaScript numbers are modelled as integers.  The one non-integer the   *)
(* code can produce on the inputs considered here is NaN (a read past the  *)
(* month table), modelled by the reserved value NaN below.                 *)
(***************************************************************************)
EXTENDS Integers, Sequences, FiniteSets, TLC

VARIABLES
    dt,     \* the current DateTime (the receiver of the next call)
    raw,    \* the field tuple last handed to normalizeDateTime
    other,  \* a second DateTime (the end of the interval to build)
    iv,     \* the Interval built from dt and other, or NoInterval
    op,     \* the operation that produced this state
    key,    \* the unit / key argument of that operation
    arg,    \* the DateTime argument of contains, or the Interval of overlaps
    ret,    \* the number returned by the last query
    ok      \* the boolean returned by the last query

vars == <<dt, raw, other, iv, op, key, arg, ret, ok>>

----------------------------------------------------------------------------
(* JavaScript arithmetic used by the source *)

\* Math.floor(a / b), b > 0
floorDiv(a, b) == a \div b

\* (a / b | 0), b > 0: the quotient truncated towards zero
truncDiv(a, b) == IF a >= 0 THEN a \div b ELSE -((-a) \div b)

\* a % b, b > 0: the remainder takes the sign of the dividend
rem(a, b) == IF a >= 0 THEN a % b ELSE -((-a) % b)

\* modulo(a, b) of emnorst, b > 0: the non-negative remainder
modulo(a, b) == a % b

\* NaN: what undefined + number evaluates to
NaN == -999999999

isNaN(x) == x = NaN

\* a + b
add(a, b) == IF isNaN(a) \/ isNaN(b) THEN NaN ELSE a + b

\* a - b
sub(a, b) == IF isNaN(a) \/ isNaN(b) THEN NaN ELSE a - b

\* a < b and a > b: false when either side is NaN
lt(a, b) == ~isNaN(a) /\ ~isNaN(b) /\ a < b
gt(a, b) == ~isNaN(a) /\ ~isNaN(b) /\ a > b

----------------------------------------------------------------------------
(* datetime.ts: constants *)

daysInYear == 365
daysInWeek == 7
monthsInYear == 12
hoursInDay == 24
minutesInHour == 60
secondsInMinute == 60
millisInSecond == 1000

\* interval.ts imports this name from ./datetime, which does not export it;
\* spec.md 4.4 gives the factor as 365
daysInYearWithoutLeapDay == 365

daysInMonthArray == <<31, 28, 31, 30, 31, 30, 31, 31, 30, 31, 30, 31>>

----------------------------------------------------------------------------
(* datetime.ts: calendar math *)

isLeapYear(year) ==
    rem(year, 4) = 0 /\ (rem(year, 100) # 0 \/ rem(year, 400) = 0)

leapDays(year) ==
    truncDiv(year, 4) - truncDiv(year, 100) + truncDiv(year, 400)

\* daysInMonthArray[month - 1] is undefined outside 1..12, and
\* undefined + leapDay is NaN
daysInMonth(year, month) ==
    LET leapDay == IF month = 2 /\ isLeapYear(year) THEN 1 ELSE 0
    IN  IF month \in 1..12 THEN daysInMonthArray[month] + leapDay ELSE NaN

\* yearday without its leap-day term
yeardayNoLeapDay(date) ==
    LET m == rem(date.month + 9, 12) + 4
    IN  rem(truncDiv(306 * m, 10) - 64 + date.day, daysInYear)

yearday(date) ==
    LET m == rem(date.month + 9, 12) + 4
        dayOfYearWithoutLeapDay ==
            rem(truncDiv(306 * m, 10) - 64 + date.day, daysInYear)
        leapDay == IF date.month > 2 /\ isLeapYear(date.year) THEN 1 ELSE 0
    IN  dayOfYearWithoutLeapDay + leapDay

weekday(date) ==
    LET dayFromUnixEpoc ==
            date.year + leapDays(date.year - 1) + yearday(date)
    IN  rem(dayFromUnixEpoc, daysInWeek)

----------------------------------------------------------------------------
(* datetime.ts: the field normalizer *)

RECURSIVE carryDays(_, _, _)
\* the loop while(day > daysInMonth(year, month))
carryDays(year, month, day) ==
    IF day > daysInMonth(year, month)
    THEN IF month + 1 > monthsInYear
         THEN carryDays(year + 1, 1, day - daysInMonth(year, month))
         ELSE carryDays(year, month + 1, day - daysInMonth(year, month))
    ELSE [year |-> year, month |-> month, day |-> day]

RECURSIVE borrowDays(_, _, _)
\* the loop while(day <= 0)
borrowDays(year, month, day) ==
    IF day <= 0
    THEN IF month - 1 < 1
         THEN borrowDays(year - 1, monthsInYear,
                         day + daysInMonth(year - 1, monthsInYear))
         ELSE borrowDays(year, month - 1, day + daysInMonth(year, month - 1))
    ELSE [year |-> year, month |-> month, day |-> day]

\* normalizeDate without its second loop
normalizeDateNoBorrow(date) ==
    LET m0 == modulo(date.month, monthsInYear)
        month == IF m0 = 0 THEN monthsInYear ELSE m0
        year == date.year + floorDiv(date.month - 1, monthsInYear)
    IN  carryDays(year, month, date.day)

normalizeDate(date) ==
    LET m0 == modulo(date.month, monthsInYear)
        month == IF m0 = 0 THEN monthsInYear ELSE m0
        year == date.year + floorDiv(date.month - 1, monthsInYear)
        up == carryDays(year, month, date.day)
    IN  borrowDays(up.year, up.month, up.day)

\* normalizeTime carrying with a truncating division
normalizeTimeTrunc(time) ==
    LET millisecond == time.millisecond
        second == time.second + truncDiv(millisecond, millisInSecond)
        minute == time.minute + truncDiv(second, secondsInMinute)
        hour == time.hour + truncDiv(minute, minutesInHour)
    IN  [hour |-> hour,
         minute |-> modulo(minute, minutesInHour),
         second |-> modulo(second, secondsInMinute),
         millisecond |-> modulo(millisecond, millisInSecond)]

normalizeTime(time) ==
    LET millisecond == time.millisecond
        second == time.second + floorDiv(millisecond, millisInSecond)
        minute == time.minute + floorDiv(second, secondsInMinute)
        hour == time.hour + floorDiv(minute, minutesInHour)
    IN  [hour |-> hour,
         minute |-> modulo(minute, minutesInHour),
         second |-> modulo(second, secondsInMinute),
         millisecond |-> modulo(millisecond, millisInSecond)]

\* new DateTime(year, month, day, hour, minute, second, millisecond)
DateTime(year, month, day, hour, minute, second, millisecond) ==
    [year |-> year, month |-> month, day |-> day, hour |-> hour,
     minute |-> minute, second |-> second, millisecond |-> millisecond]

normalizeDateTime(d) ==
    LET time == normalizeTime(d)
        date == normalizeDate([day |-> d.day + floorDiv(time.hour, hoursInDay),
                               month |-> d.month,
                               year |-> d.year])
    IN  DateTime(date.year, date.month, date.day,
                 modulo(time.hour, hoursInDay),
                 time.minute, time.second, time.millisecond)

----------------------------------------------------------------------------
(* datetime.ts: DateTime *)

\* p.k ?? d, for a partial record p (a function on a subset of the names)
orElse(p, k, d) == IF k \in DOMAIN p THEN p[k] ELSE d

\* the tuple with() hands to normalizeDateTime
withFields(this, p) ==
    DateTime(orElse(p, "year", this.year),
             orElse(p, "month", this.month),
             orElse(p, "day", this.day),
             orElse(p, "hour", this.hour),
             orElse(p, "minute", this.minute),
             orElse(p, "second", this.second),
             orElse(p, "millisecond", this.millisecond))

with(this, p) == normalizeDateTime(withFields(this, p))

\* the tuple plus() hands to normalizeDateTime
plusFields(this, dur) ==
    DateTime(this.year + orElse(dur, "years", 0),
             this.month + orElse(dur, "months", 0),
             this.day + orElse(dur, "days", 0),
             this.hour + orElse(dur, "hours", 0),
             this.minute + orElse(dur, "minutes", 0),
             this.second + orElse(dur, "seconds", 0),
             this.millisecond + orElse(dur, "milliseconds", 0))

plus(this, dur) == normalizeDateTime(plusFields(this, dur))

\* the partial record startOf() builds: the labelled block falls through
\* second, minute, hour, day, month and stops at the key
startOfFields(this, k) ==
    LET k1 == IF k = "week" THEN "day" ELSE k
        wk == IF k = "week"
              THEN "day" :> (this.day - weekday(this))
              ELSE << >>
        f1 == "millisecond" :> 0
        f2 == IF k1 = "second" THEN f1 ELSE ("second" :> 0) @@ f1
        f3 == IF k1 \in {"second", "minute"} THEN f2 ELSE ("minute" :> 0) @@ f2
        f4 == IF k1 \in {"second", "minute", "hour"}
              THEN f3 ELSE ("hour" :> 0) @@ f3
        f5 == IF k1 \in {"second", "minute", "hour", "day"}
              THEN f4 ELSE ("day" :> 1) @@ f4
        f6 == IF k1 \in {"second", "minute", "hour", "day", "month"}
              THEN f5 ELSE ("month" :> 1) @@ f5
    IN  f6 @@ wk

startOf(this, k) == with(this, startOfFields(this, k))

\* the duration endOf() adds to the start
endOfDuration(k) ==
    IF k = "week"
    THEN ("days" :> 7) @@ ("milliseconds" :> -1)
    ELSE LET plural == [year |-> "years", month |-> "months", day |-> "days",
                        hour |-> "hours", minute |-> "minutes",
                        second |-> "seconds"]
         IN  (plural[k] :> 1) @@ ("milliseconds" :> -1)

endOf(this, k) == plus(startOf(this, k), endOfDuration(k))

----------------------------------------------------------------------------
(* interval.ts: Interval *)

NoInterval == [none |-> TRUE]

\* the closure daysInCurrentMonth() of the constructor, at the current
\* value of months
daysInCurrentMonth(start, months) ==
    LET m == start.month + months
        r == rem(m, monthsInYear)
    IN  daysInMonth(start.year + floorDiv(m, monthsInYear),
                    IF r = 0 THEN monthsInYear ELSE r)

RECURSIVE carryMonths(_, _, _)
\* the loop while(days > daysInCurrentMonth())
carryMonths(start, days, months) ==
    IF gt(days, daysInCurrentMonth(start, months))
    THEN carryMonths(start, sub(days, daysInCurrentMonth(start, months)),
                     months + 1)
    ELSE [days |-> days, months |-> months]

RECURSIVE borrowMonthsStale(_, _, _)
\* the second loop adding the month's days before stepping months back
borrowMonthsStale(start, days, months) ==
    IF lt(days, 0)
    THEN borrowMonthsStale(start, add(days, daysInCurrentMonth(start, months)),
                           months - 1)
    ELSE [days |-> days, months |-> months]

RECURSIVE borrowMonths(_, _, _)
\* the loop while(days < 0)
borrowMonths(start, days, months) ==
    IF lt(days, 0)
    THEN borrowMonths(start, add(days, daysInCurrentMonth(start, months - 1)),
                      months - 1)
    ELSE [days |-> days, months |-> months]

\* the constructor up to the end of its two loops: the adjusted days and
\* the whole-month count
adjustDays(start, end) ==
    LET time == normalizeTime([hour |-> end.hour - start.hour,
                               minute |-> end.minute - start.minute,
                               second |-> end.second - start.second,
                               millisecond |-> end.millisecond - start.millisecond])
        days == end.day - start.day + floorDiv(time.hour, hoursInDay)
        months == (end.year - start.year) * monthsInYear
                  + end.month - start.month
        up == carryMonths(start, days, months)
    IN  borrowMonths(start, up.days, up.months)

Interval(start, end) ==
    LET time == normalizeTime([hour |-> end.hour - start.hour,
                               minute |-> end.minute - start.minute,
                               second |-> end.second - start.second,
                               millisecond |-> end.millisecond - start.millisecond])
        adj == adjustDays(start, end)
    IN  [start |-> start,
         end |-> end,
         years |-> floorDiv(adj.months, monthsInYear),
         months |-> rem(adj.months, monthsInYear),
         days |-> adj.days,
         hours |-> modulo(time.hour, hoursInDay),
         minutes |-> time.minute,
         seconds |-> time.second,
         milliseconds |-> time.millisecond]

\* the exact day count to() recomputes for "days" and every finer key
toDays(i) ==
    (i.end.year - i.start.year) * daysInYearWithoutLeapDay
    + leapDays(i.end.year) - leapDays(i.start.year)
    + yearday(i.end) - yearday(i.start)

to(i, k) ==
    LET days == toDays(i)
        hours == days * hoursInDay + i.hours
        minutes == hours * minutesInHour + i.minutes
        seconds == minutes * secondsInMinute + i.seconds
    IN  CASE k = "years" -> i.years
          [] k = "months" -> i.years * monthsInYear + i.months
          [] k = "days" -> days
          [] k = "hours" -> hours
          [] k = "minutes" -> minutes
          [] k = "seconds" -> seconds
          [] k = "milliseconds" -> seconds * millisInSecond + i.milliseconds

\* Relational comparison of two DateTime objects.  The class defines no
\* valueOf, toString or Symbol.toPrimitive, so each operand is converted by
\* Object.prototype.toString, to the code units of "[object Object]", and
\* the two strings are compared code unit by code unit.
toPrimitive(obj) ==
    <<91, 111, 98, 106, 101, 99, 116, 32, 79, 98, 106, 101, 99, 116, 93>>

RECURSIVE stringLess(_, _)
stringLess(a, b) ==
    IF b = << >> THEN FALSE
    ELSE IF a = << >> THEN TRUE
    ELSE IF Head(a) # Head(b) THEN Head(a) < Head(b)
    ELSE stringLess(Tail(a), Tail(b))

\* a <= b: not (b < a)
lessEq(a, b) == ~stringLess(toPrimitive(b), toPrimitive(a))

contains(i, d) == lessEq(i.start, d) /\ lessEq(d, i.end)

overlaps(i, j) == lessEq(i.start, j.end) /\ lessEq(j.start, i.end)

\* the seven fields of an Interval, as the duration plus() accepts
breakdown(i) ==
    [years |-> i.years, months |-> i.months, days |-> i.days,
     hours |-> i.hours, minutes |-> i.minutes, seconds |-> i.seconds,
     milliseconds |-> i.milliseconds]

----------------------------------------------------------------------------
(* Bounds and input sets *)

\* how many times over its range an argument of with / plus may wrap
MaxWrap == 1

\* the last year of the modern years the inputs are drawn from
MaxYear == 2024

\* to() is asked for a key finer than days only on intervals of at most
\* this many days, so that the millisecond total stays a 32-bit integer
MaxFineDays == 20

Units == {"year", "month", "week", "day", "hour", "minute", "second"}

Keys == {"years", "months", "days", "hours", "minutes", "seconds",
         "milliseconds"}

Midnight == [hour |-> 0, minute |-> 0, second |-> 0, millisecond |-> 0]

LastMilli == [hour |-> 23, minute |-> 59, second |-> 59, millisecond |-> 999]

Noon == [hour |-> 12, minute |-> 30, second |-> 15, millisecond |-> 500]

at(y, m, d, t) == DateTime(y, m, d, t.hour, t.minute, t.second, t.millisecond)

\* DateTime.from(0)
Epoch == at(1970, 1, 1, Midnight)

\* the years DateTime.from is given: around year zero, a century that is
\* not a leap year, one that is, and the modern years up to MaxYear
Years == {-1, 0, 1, 1900, 2000} \cup (2023..MaxYear)

\* the years, dates and times of day the chained calls are followed through
GridYears == {0, 1} \cup (2024..MaxYear)

GridTimes == {Midnight, LastMilli, Noon}

InGrid(d) ==
    /\ d.year \in GridYears
    /\ d.month \in {1, 2, 3, 12}
    /\ d.day \in {1, 28, 29, 30, 31}
    /\ [hour |-> d.hour, minute |-> d.minute, second |-> d.second,
        millisecond |-> d.millisecond] \in GridTimes

\* what DateTime.from(new Date(...)) can return: canonical tuples only
FromDates ==
    {at(y, m, d, Midnight) : y \in Years, m \in 1..12, d \in 1..31} \cup
    {at(y, m, d, t) : y \in GridYears, m \in {1, 2, 3, 12},
                      d \in {1, 28, 29, 30, 31}, t \in GridTimes}

InitDateTimes == {d \in FromDates : d.day <= daysInMonth(d.year, d.month)}

Range ==
    [month |-> <<1, 12>>, day |-> <<1, 31>>, hour |-> <<0, 23>>,
     minute |-> <<0, 59>>, second |-> <<0, 59>>, millisecond |-> <<0, 999>>]

\* values below, at and above the range of field k
WithVals(k) ==
    LET lo == Range[k][1]
        hi == Range[k][2]
        r == hi - lo + 1
    IN  {lo - MaxWrap * r - 1, lo - 1, lo, hi, hi + 1, hi + MaxWrap * r + 1}

WithArgs ==
    UNION {{k :> v : v \in WithVals(k)} : k \in DOMAIN Range} \cup
    {"year" :> y : y \in Years} \cup
    {("month" :> m) @@ ("day" :> d) : m \in {0, 13}, d \in {0, 32}} \cup
    {("hour" :> h) @@ ("millisecond" :> ms) : h \in {-1, 24}, ms \in {-1, 1000}}

Radix ==
    [years |-> 1, months |-> 12, days |-> 31, hours |-> 24, minutes |-> 60,
     seconds |-> 60, milliseconds |-> 1000]

PlusVals(k) ==
    {-(MaxWrap * Radix[k] + 1), -1, 0, 1, MaxWrap * Radix[k] + 1}

PlusArgs ==
    UNION {{k :> v : v \in PlusVals(k)} : k \in Keys} \cup
    {("months" :> m) @@ ("days" :> d) : m \in {-1, 1}, d \in {-1, 31}} \cup
    {("days" :> 1) @@ ("milliseconds" :> -1), << >>}

----------------------------------------------------------------------------
(* The DateTime machine: a DateTime obtained from DateTime.from, then any  *)
(* sequence of with / plus / startOf / endOf calls and weekday / yearday   *)
(* queries on the current value.                                           *)

Init ==
    /\ dt \in InitDateTimes
    /\ raw = dt
    /\ other = Epoch
    /\ iv = NoInterval
    /\ op = "from"
    /\ key = "none"
    /\ arg = NoInterval
    /\ ret = 0
    /\ ok = FALSE

With(p) ==
    /\ InGrid(dt)
    /\ raw' = withFields(dt, p)
    /\ dt' = with(dt, p)
    /\ op' = "with"
    /\ key' = "none"
    /\ ret' = 0
    /\ UNCHANGED <<other, iv, arg, ok>>

Plus(dur) ==
    /\ InGrid(dt)
    /\ raw' = plusFields(dt, dur)
    /\ dt' = plus(dt, dur)
    /\ op' = "plus"
    /\ key' = "none"
    /\ ret' = 0
    /\ UNCHANGED <<other, iv, arg, ok>>

StartOf(k) ==
    /\ InGrid(dt)
    /\ raw' = withFields(dt, startOfFields(dt, k))
    /\ dt' = startOf(dt, k)
    /\ op' = "startOf"
    /\ key' = k
    /\ ret' = 0
    /\ UNCHANGED <<other, iv, arg, ok>>

EndOf(k) ==
    /\ InGrid(dt)
    /\ raw' = plusFields(startOf(dt, k), endOfDuration(k))
    /\ dt' = endOf(dt, k)
    /\ op' = "endOf"
    /\ key' = k
    /\ ret' = 0
    /\ UNCHANGED <<other, iv, arg, ok>>

Weekday ==
    /\ op = "from"
    /\ ret' = weekday(dt)
    /\ op' = "weekday"
    /\ UNCHANGED <<dt, raw, other, iv, key, arg, ok>>

Yearday ==
    /\ op = "from"
    /\ ret' = yearday(dt)
    /\ op' = "yearday"
    /\ UNCHANGED <<dt, raw, other, iv, key, arg, ok>>

Next ==
    \/ \E p \in WithArgs : With(p)
    \/ \E dur \in PlusArgs : Plus(dur)
    \/ \E k \in Units : StartOf(k)
    \/ \E k \in Units : EndOf(k)
    \/ Weekday
    \/ Yearday

Spec == Init /\ [][Next]_vars

----------------------------------------------------------------------------
(* The Interval machine: two DateTimes obtained from DateTime.from, the    *)
(* Interval built from them, then its queries.                             *)

IntervalYears == {-1, 0} \cup (2023..MaxYear + 1)

IntervalDates ==
    {at(y, md[1], md[2], t) :
        y \in IntervalYears,
        md \in {<<1, 1>>, <<1, 31>>, <<2, 28>>, <<2, 29>>, <<3, 1>>,
                <<3, 3>>, <<12, 31>>},
        t \in {Midnight, LastMilli}}

IntervalEnds == {d \in IntervalDates : d.day <= daysInMonth(d.year, d.month)}

\* the DateTimes contains() is asked about, relative to the interval
ContainsArgs(i) ==
    {i.start, i.end, plus(i.end, "days" :> 1), plus(i.start, "days" :> -1)}

\* the Intervals overlaps() is asked about, relative to the interval
OverlapsArgs(i) ==
    {Interval(i.start, i.end),
     Interval(i.end, plus(i.end, "days" :> 9)),
     Interval(plus(i.end, "days" :> 1), plus(i.end, "days" :> 9)),
     Interval(plus(i.start, "days" :> -9), plus(i.start, "days" :> -1))}

abs(n) == IF n < 0 THEN -n ELSE n

IntervalInit ==
    /\ dt \in IntervalEnds
    /\ other \in IntervalEnds
    /\ raw = dt
    /\ iv = NoInterval
    /\ op = "from"
    /\ key = "none"
    /\ arg = NoInterval
    /\ ret = 0
    /\ ok = FALSE

\* new Interval(dt, other)
Construct ==
    /\ iv = NoInterval
    /\ iv' = Interval(dt, other)
    /\ op' = "Interval"
    /\ UNCHANGED <<dt, raw, other, key, arg, ret, ok>>

\* The queries are pure and leave the interval alone: each is asked of the
\* interval as built, not again after another query.
Built == iv # NoInterval /\ op = "Interval"

\* iv.to(k)
To(k) ==
    /\ Built
    /\ k \notin {"years", "months", "days"} => abs(toDays(iv)) <= MaxFineDays
    /\ ret' = to(iv, k)
    /\ op' = "to"
    /\ key' = k
    /\ arg' = NoInterval
    /\ ok' = FALSE
    /\ UNCHANGED <<dt, raw, other, iv>>

\* iv.contains(d)
Contains(d) ==
    /\ Built
    /\ ok' = contains(iv, d)
    /\ op' = "contains"
    /\ key' = "none"
    /\ arg' = d
    /\ ret' = 0
    /\ UNCHANGED <<dt, raw, other, iv>>

\* iv.overlaps(j)
Overlaps(j) ==
    /\ Built
    /\ ok' = overlaps(iv, j)
    /\ op' = "overlaps"
    /\ key' = "none"
    /\ arg' = j
    /\ ret' = 0
    /\ UNCHANGED <<dt, raw, other, iv>>

\* iv.start.plus(iv): the interval's own fields added back to its start.
\* The DateTime model carries integers, so the call is followed only when
\* the interval's days field is a number.
PlusBack ==
    /\ Built
    /\ ~isNaN(iv.days)
    /\ arg' = plus(iv.start, breakdown(iv))
    /\ op' = "plusBack"
    /\ key' = "none"
    /\ ret' = 0
    /\ ok' = FALSE
    /\ UNCHANGED <<dt, raw, other, iv>>

IntervalNext ==
    \/ Construct
    \/ \E k \in Keys : To(k)
    \/ Built /\ \E d \in ContainsArgs(iv) : Contains(d)
    \/ Built /\ \E j \in OverlapsArgs(iv) : Overlaps(j)
    \/ PlusBack

IntervalSpec == IntervalInit /\ [][IntervalNext]_vars

----------------------------------------------------------------------------
(* The proleptic Gregorian calendar, counted directly: the reference the   *)
(* properties compare the code against.                                    *)

GregorianLeap(y) == y % 4 = 0 /\ (y % 100 # 0 \/ y % 400 = 0)

MonthLength(y, m) ==
    CASE m \in {1, 3, 5, 7, 8, 10, 12} -> 31
      [] m \in {4, 6, 9, 11} -> 30
      [] m = 2 -> IF GregorianLeap(y) THEN 29 ELSE 28

RECURSIVE DaysBeforeMonth(_, _)
\* the lengths of the months of year y before month m, added one by one
DaysBeforeMonth(y, m) ==
    IF m <= 1 THEN 0 ELSE DaysBeforeMonth(y, m - 1) + MonthLength(y, m - 1)

\* zero-based day of the year
DayOfYear(d) == DaysBeforeMonth(d.year, d.month) + d.day - 1

\* days from 1 January of year a to 1 January of year b, for a <= b: one
\* 365 per year and one more for every leap year among a .. b-1
DaysOfYears(a, b) ==
    365 * (b - a) + Cardinality({y \in a..(b - 1) : GregorianLeap(y)})

\* calendar days from the date of s to the date of e (negative when e is
\* the earlier date)
DaysFromTo(s, e) ==
    (IF s.year <= e.year THEN DaysOfYears(s.year, e.year)
                         ELSE -DaysOfYears(e.year, s.year))
    + DayOfYear(e) - DayOfYear(s)

\* 0 = Sunday; 1 January 1970 was a Thursday
TrueWeekday(d) == (4 + DaysFromTo(Epoch, d)) % 7

Canonical(d) ==
    /\ d.month \in 1..12
    /\ d.day \in 1..MonthLength(d.year, d.month)
    /\ d.hour \in 0..23
    /\ d.minute \in 0..59
    /\ d.second \in 0..59
    /\ d.millisecond \in 0..999

Fields(d) ==
    <<d.year, d.month, d.day, d.hour, d.minute, d.second, d.millisecond>>

RECURSIVE TupleLE(_, _)
TupleLE(a, b) ==
    IF a = << >> THEN TRUE
    ELSE IF Head(a) # Head(b) THEN Head(a) < Head(b)
    ELSE TupleLE(Tail(a), Tail(b))

\* the lexicographic order over (year, month, day, hour, minute, second,
\* millisecond)
LexLE(a, b) == TupleLE(Fields(a), Fields(b))

\* milliseconds since midnight of a time tuple, reduced or not
TimeMillis(t) ==
    t.hour * 3600000 + t.minute * 60000 + t.second * 1000 + t.millisecond

MillisInDay == 24 * 60 * 60 * 1000

FirstOfMonth(d) == at(d.year, d.month, 1, Midnight)

Mutating == {"with", "plus", "startOf", "endOf"}

----------------------------------------------------------------------------
(* Properties *)

\* C1: to("days") of an Interval is the exact number of calendar days from
\* the date of its start to the date of its end, as the calendar counts them
\* (365 or 366 over one year, by whether a 29 February lies inside).
C1_ExactDays ==
    op = "to" /\ key = "days" => ret = DaysFromTo(iv.start, iv.end)

\* C2: on an interval with start <= end, contains(d) is true exactly when
\* start <= d <= end in the lexicographic order of the seven fields, and
\* overlaps(j) is true exactly when start <= j.end and j.start <= end.
C2_ContainsOverlaps ==
    /\ op = "contains" /\ LexLE(iv.start, iv.end) =>
           ok = (LexLE(iv.start, arg) /\ LexLE(arg, iv.end))
    /\ op = "overlaps" =>
           ok = (LexLE(iv.start, arg.end) /\ LexLE(arg.start, iv.end))

\* C3: after any sequence of with / plus / startOf / endOf calls, with
\* positive, zero or negative arguments, the DateTime is canonical.
C3_Canonical == op \in Mutating => Canonical(dt)

\* endOf("month") in a leap February: the raw tuple is 1 March less one
\* millisecond, and the borrow runs through every field down to 29 February
C3_Witness ==
    /\ op = "endOf"
    /\ key = "month"
    /\ raw.month = 3 /\ raw.day = 1 /\ raw.millisecond = -1
    /\ dt.month = 2 /\ dt.day = 29 /\ dt.hour = 23 /\ dt.millisecond = 999

\* the month reached from start's by n months, rolling the year
AnchorYear(start, n) == start.year + ((start.month - 1 + n) \div 12)
AnchorMonth(start, n) == ((start.month - 1 + n) % 12) + 1

\* C4: for start and end in either order the breakdown is well defined,
\* with 0 <= days < the length of the month years*12+months after start's,
\* hours in 0..23, minutes and seconds in 0..59, milliseconds in 0..999.
C4_BreakdownInRange ==
    iv # NoInterval =>
        LET n == iv.years * 12 + iv.months
        IN  /\ ~isNaN(iv.days)
            /\ 0 <= iv.days
            /\ iv.days < MonthLength(AnchorYear(iv.start, n),
                                     AnchorMonth(iv.start, n))
            /\ iv.hours \in 0..23
            /\ iv.minutes \in 0..59
            /\ iv.seconds \in 0..59
            /\ iv.milliseconds \in 0..999

\* the whole-month count the constructor's day adjustment ends with
WholeMonths(i) == adjustDays(i.start, i.end).months

\* C5: with M the whole-month count after the day adjustment, for start
\* and end in either order: years = floor(M / 12), months = M mod 12 in
\* 0..11, to("years") = floor(M / 12) and to("months") = M.
C5_YearsMonths ==
    iv # NoInterval =>
        LET M == WholeMonths(iv)
        IN  /\ iv.years = M \div 12
            /\ iv.months = M % 12
            /\ iv.months \in 0..11
            /\ op = "to" /\ key = "years" => ret = M \div 12
            /\ op = "to" /\ key = "months" => ret = M

\* C6: for every canonical date, years <= 0 included, weekday is in 0..6
\* and is the true weekday of the proleptic Gregorian calendar, 0 = Sunday
\* (1 January 1970 being a Thursday, each next day one more modulo 7).
C6_Weekday ==
    op = "weekday" => ret \in 0..6 /\ ret = TrueWeekday(dt)

\* C7: for every canonical date, yearday is the zero-based day of the year
\* counted month by month: the lengths of the earlier months plus day - 1.
C7_Yearday == op = "yearday" => ret = DayOfYear(dt)

\* 31 December of a leap year is day 365
C7_Witness ==
    /\ op = "yearday"
    /\ dt.year = 2024 /\ dt.month = 12 /\ dt.day = 31
    /\ ret = 365

\* C8: for a tuple with month in 1..12 and any integer day, hour, minute,
\* second and millisecond, the DateTime normalizeDateTime returns is the
\* same moment: counted from the first of the tuple's month it lies
\* (day - 1) days and hour:minute:second.millisecond later.  The offset
\* is compared as whole days and milliseconds within the day.  And
\* normalizeTime alone keeps the millisecond total, its hour unreduced.
C8_MomentPreserved ==
    op \in Mutating /\ raw.month \in 1..12 =>
        /\ DaysFromTo(FirstOfMonth(raw), dt)
               = raw.day - 1 + (TimeMillis(raw) \div MillisInDay)
        /\ TimeMillis(dt) = TimeMillis(raw) % MillisInDay
        /\ TimeMillis(normalizeTime(raw)) = TimeMillis(raw)

\* one millisecond before a year begins: normalizeTime returns hour -1,
\* and the date goes back into the year before
C8_Witness ==
    /\ op = "plus"
    /\ raw.month = 1 /\ raw.day = 1 /\ raw.millisecond = -1
    /\ normalizeTime(raw).hour = -1
    /\ dt.year = raw.year - 1 /\ dt.month = 12 /\ dt.day = 31

\* what C9 says of one DateTime d and one unit u
StartEndOf(d, u) ==
    LET s == startOf(d, u)
        e == endOf(d, u)
        next == plus(e, "milliseconds" :> 1)
    IN  /\ LexLE(s, d)
        /\ LexLE(d, e)
        /\ startOf(s, u) = s
        /\ startOf(e, u) = s
        /\ startOf(next, u) = next
        /\ u = "week" =>
               /\ TrueWeekday(s) = 0
               /\ TimeMillis(s) = 0
               /\ DaysFromTo(s, d) \in 0..6

\* C9: for every canonical DateTime d of a year >= 1 and every unit,
\* startOf <= d <= endOf; startOf is idempotent and endOf.startOf is
\* startOf; one millisecond after endOf is a unit boundary; the start of
\* the week is a Sunday at 00:00:00.000 at most 6 days before d.
C9_StartEndOf ==
    Canonical(dt) /\ dt.year >= 1 => \A u \in Units : StartEndOf(dt, u)

\* C10: for start <= end, the interval's own breakdown added to its start
\* in one plus call gives its end, field for field.
C10_RoundTrip ==
    op = "plusBack" /\ LexLE(iv.start, iv.end) => arg = iv.end

\* 31 January 23:59:59.999 to 3 March 00:00:00.000: start's day exceeds
\* the anchored month and end's time of day is the earlier one
C10_Witness ==
    /\ op = "plusBack"
    /\ iv.start.year = iv.end.year
    /\ iv.start.month = 1 /\ iv.start.day = 31
    /\ iv.end.month = 3 /\ iv.end.day = 3
    /\ TimeMillis(iv.end) < TimeMillis(iv.start)
    /\ arg = iv.end

=============================================================================
